---- MODULE Spec2Model ----
(***************************************************************************)
(* NexaCtrl (firmware/NexaCtrl.cpp): encoding of Nexa/HomeEasy commands    *)
(* into low-pulse durations and their transmission on an output pin.       *)
(*                                                                         *)
(* Spec follows one object built by NexaCtrl(tx_pin, rx_pin) through any   *)
(* number of command calls.  A call is a sequence of steps: the statements *)
(* of the command method, then the phases of Transmit.                     *)
(***************************************************************************)
EXTENDS Integers, Sequences, FiniteSets, TLC

(***************************************************************************)
(* Program constants (NexaCtrl.cpp:11-32).                                 *)
(***************************************************************************)
kPulseHigh == 275
kPulseLow0 == 275
kPulseLow1 == 1225
kLowPulseLength == 64
kControllerIdOffset == 0
kControllerIdLength == 26
kGroupFlagOffset == 26
kOnFlagOffset == 27
kDeviceIdOffset == 28
kDeviceIdLength == 4
kDimOffset == 32
kDimLength == 4

\* literals of Transmit, TransmitLatch1 and TransmitLatch2
kLatch1Low == 9900
kLatch2Low == 2675
kGapDelay == 10000
kRepeats == 2

\* the size the constructor's comment gives: kLowPulseLength + kDimLength
BufferSize_comment == kLowPulseLength + kDimLength

\* calloc(kLowPulseLength + 2 * kDimLength, sizeof(int))
BufferSize == kLowPulseLength + (2 * kDimLength)

(***************************************************************************)
(* Bounds of the model.                                                    *)
(***************************************************************************)
\* pins are numbered 0..MaxPin
MaxPin == 2
\* identifiers exceed their field by 1..MaxExcess
MaxExcess == 1
\* itob is applied to every value whose set bits fit in a window this wide
MaxWindow == 5

Pins == 0..MaxPin

\* arguments of NexaCtrl(tx_pin, rx_pin)
CtorTxPins == {1}
CtorRxPins == {0}

(***************************************************************************)
(* itob and power2 (NexaCtrl.cpp:219-231).                                 *)
(***************************************************************************)
\* return 1 << power;
power2(power) == 2 ^ power

RECURSIVE itobLoop(_, _, _, _)
\* one iteration of the for loop of itob, then the rest of the loop
itobLoop(bits, integer, length, i) ==
  IF i < length
  THEN IF (integer \div power2(length - 1 - i)) = 1
       THEN itobLoop([bits EXCEPT ![i] = 1],
                     integer - power2(length - 1 - i), length, i + 1)
       ELSE itobLoop([bits EXCEPT ![i] = 0], integer, length, i + 1)
  ELSE bits

\* itob filling bits[] from the least significant end
itob_reversed(integer, length) ==
  LET b == itobLoop([i \in 0..(length - 1) |-> 0], integer, length, 0)
  IN  [i \in 0..(length - 1) |-> b[length - 1 - i]]

\* bits[0..length-1] as itob leaves it
itob(integer, length) ==
  itobLoop([i \in 0..(length - 1) |-> 0], integer, length, 0)

\* arguments of the commands: in range, and 1..MaxExcess beyond the field
ControllerIds ==
  {0, 1, 44739242, 67108863}
    \cup ((power2(kControllerIdLength) + 1)..(power2(kControllerIdLength) + MaxExcess))
DeviceIds ==
  {0, 3, 10, 15}
    \cup ((power2(kDeviceIdLength) + 1)..(power2(kDeviceIdLength) + MaxExcess))
DimLevels == {0, 50, 100} \cup (101..(100 + MaxExcess))

(***************************************************************************)
(* The frame encoder (NexaCtrl.cpp:121-155).                               *)
(***************************************************************************)
\* SetBit with the two pairs exchanged
SetBit_swapped(arr, bit_index, value) ==
  IF value = 0
  THEN [arr EXCEPT ![bit_index * 2] = kPulseLow1,
                   ![(bit_index * 2) + 1] = kPulseLow0]
  ELSE [arr EXCEPT ![bit_index * 2] = kPulseLow0,
                   ![(bit_index * 2) + 1] = kPulseLow1]

\* low_pulse_array after SetBit(bit_index, value)
SetBit(arr, bit_index, value) ==
  IF value = 0
  THEN [arr EXCEPT ![bit_index * 2] = kPulseLow0,
                   ![(bit_index * 2) + 1] = kPulseLow1]
  ELSE [arr EXCEPT ![bit_index * 2] = kPulseLow1,
                   ![(bit_index * 2) + 1] = kPulseLow0]

RECURSIVE SetBitsLoop(_, _, _, _, _)
\* for (bit = ..; bit < length; bit++) SetBit(offset + bit, bits[bit]);
SetBitsLoop(arr, offset, bits, length, bit) ==
  IF bit < length
  THEN SetBitsLoop(SetBit(arr, offset + bit, bits[bit]), offset, bits, length, bit + 1)
  ELSE arr

\* SetControllerBits converting and storing one bit more than the field has
SetControllerBits_wide(arr, controller_id) ==
  SetBitsLoop(arr, kControllerIdOffset, itob(controller_id, kControllerIdLength + 1),
              kControllerIdLength + 1, 0)

SetControllerBits(arr, controller_id) ==
  SetBitsLoop(arr, kControllerIdOffset, itob(controller_id, kControllerIdLength),
              kControllerIdLength, 0)

\* SetDeviceBits starting at the on flag instead of the device field
SetDeviceBits_offset(arr, device_id) ==
  SetBitsLoop(arr, kOnFlagOffset, itob(device_id, kDeviceIdLength),
              kDeviceIdLength, 0)

SetDeviceBits(arr, device_id) ==
  SetBitsLoop(arr, kDeviceIdOffset, itob(device_id, kDeviceIdLength),
              kDeviceIdLength, 0)

\* the dim loop of DeviceDim (NexaCtrl.cpp:90-96)
SetDimBits(arr, dim_level) ==
  SetBitsLoop(arr, kDimOffset, itob(dim_level, kDimLength), kDimLength, 0)

\* "Specific for dim" (NexaCtrl.cpp:85-86)
DimMarker(arr) ==
  [arr EXCEPT ![kOnFlagOffset * 2] = kPulseLow0,
              ![(kOnFlagOffset * 2) + 1] = kPulseLow0]

(***************************************************************************)
(* The command methods (NexaCtrl.cpp:54-118) as their statement lists.     *)
(* A statement is <<op, a, b>>: the callee and its arguments.              *)
(***************************************************************************)
Stmt(op, a, b) == << op, a, b >>
Op(stmt) == stmt[1]
ArgA(stmt) == stmt[2]
ArgB(stmt) == stmt[3]

\* DeviceOn leaving the group flag as the buffer has it
DeviceOn_nogroup(controller_id, device_id) ==
  << Stmt("SetControllerBits", controller_id, 0),
     Stmt("SetBit", kOnFlagOffset, 1),
     Stmt("SetDeviceBits", device_id, 0),
     Stmt("Transmit", kLowPulseLength, 0) >>

DeviceOn(controller_id, device_id) ==
  << Stmt("SetControllerBits", controller_id, 0),
     Stmt("SetBit", kGroupFlagOffset, 0),
     Stmt("SetBit", kOnFlagOffset, 1),
     Stmt("SetDeviceBits", device_id, 0),
     Stmt("Transmit", kLowPulseLength, 0) >>

\* DeviceOff setting the on flag as DeviceOn does
DeviceOff_on(controller_id, device_id) ==
  << Stmt("SetControllerBits", controller_id, 0),
     Stmt("SetBit", kGroupFlagOffset, 0),
     Stmt("SetBit", kOnFlagOffset, 1),
     Stmt("SetDeviceBits", device_id, 0),
     Stmt("Transmit", kLowPulseLength, 0) >>

DeviceOff(controller_id, device_id) ==
  << Stmt("SetControllerBits", controller_id, 0),
     Stmt("SetBit", kGroupFlagOffset, 0),
     Stmt("SetBit", kOnFlagOffset, 0),
     Stmt("SetDeviceBits", device_id, 0),
     Stmt("Transmit", kLowPulseLength, 0) >>

\* the scaling as dim_level * 15 / 100
DimScale_ratio(dim_level) == (dim_level * 15) \div 100

\* dim_level *= (15/100);
DimScale(dim_level) == dim_level * (15 \div 100)

\* DeviceDim transmitting kLowPulseLength + kDimLength entries
DeviceDim_short(controller_id, device_id, dim_level) ==
  << Stmt("SetControllerBits", controller_id, 0),
     Stmt("SetBit", kGroupFlagOffset, 0),
     Stmt("DimMarker", 0, 0),
     Stmt("SetDeviceBits", device_id, 0),
     Stmt("SetDimBits", DimScale(dim_level), 0),
     Stmt("Transmit", kLowPulseLength + kDimLength, 0) >>

\* DeviceDim encoding the on flag as a bit instead of the dim pattern
DeviceDim_onflag(controller_id, device_id, dim_level) ==
  << Stmt("SetControllerBits", controller_id, 0),
     Stmt("SetBit", kGroupFlagOffset, 0),
     Stmt("SetBit", kOnFlagOffset, 1),
     Stmt("SetDeviceBits", device_id, 0),
     Stmt("SetDimBits", DimScale(dim_level), 0),
     Stmt("Transmit", kLowPulseLength + (kDimLength * 2), 0) >>

DeviceDim(controller_id, device_id, dim_level) ==
  << Stmt("SetControllerBits", controller_id, 0),
     Stmt("SetBit", kGroupFlagOffset, 0),
     Stmt("DimMarker", 0, 0),
     Stmt("SetDeviceBits", device_id, 0),
     Stmt("SetDimBits", DimScale(dim_level), 0),
     Stmt("Transmit", kLowPulseLength + (kDimLength * 2), 0) >>

\* GroupOn leaving the device field as the previous command set it
GroupOn_nodevice(controller_id) ==
  << Stmt("SetControllerBits", controller_id, 0),
     Stmt("SetBit", kGroupFlagOffset, 1),
     Stmt("SetBit", kOnFlagOffset, 1),
     Stmt("Transmit", kLowPulseLength, 0) >>

GroupOn(controller_id) ==
  << Stmt("SetControllerBits", controller_id, 0),
     Stmt("SetDeviceBits", 0, 0),
     Stmt("SetBit", kGroupFlagOffset, 1),
     Stmt("SetBit", kOnFlagOffset, 1),
     Stmt("Transmit", kLowPulseLength, 0) >>

GroupOff(controller_id) ==
  << Stmt("SetControllerBits", controller_id, 0),
     Stmt("SetDeviceBits", 0, 0),
     Stmt("SetBit", kGroupFlagOffset, 1),
     Stmt("SetBit", kOnFlagOffset, 0),
     Stmt("Transmit", kLowPulseLength, 0) >>

(***************************************************************************)
(* State.                                                                  *)
(***************************************************************************)
VARIABLES
  tx_pin_,          \* member: the transmit pin
  rx_pin_,          \* member: the receive pin
  led_pin_,         \* member: the status pin, 0 = none
  low_pulse_array,  \* member: the calloc'ed buffer, index -> low-pulse duration
  interrupts,       \* TRUE while interrupt delivery is enabled
  pin,              \* output level of each pin
  call,             \* the command call in progress or last returned
  prog,             \* statement list of the call in progress
  pc,               \* "idle", "body", or the phase of Transmit
  step,             \* index in prog of the next statement
  pulse_length,     \* Transmit's parameter
  transmit_count,   \* Transmit's loop counter
  trace,            \* history: level of the transmit pin during each delay of this call
  entry_interrupts, \* history: interrupts at call entry
  last_bits,        \* history: frame bit -> value, as passed to SetBit by the last statement
  accessed,         \* history: indices of low_pulse_array used by this call
  itob_in,          \* SpecItob: the arguments <<integer, length>> of a call of itob
  itob_bits,        \* SpecItob: bits[] after that call, NoBits before it
  ctor,             \* history: the constructor call that built the object
  stack,            \* SpecIrq: the call an interrupt handler has suspended
  preempted         \* SpecIrq: a handler ran a command during the call in progress

vars == << tx_pin_, rx_pin_, led_pin_, low_pulse_array, interrupts, pin, call,
           prog, pc, step, pulse_length, transmit_count, trace,
           entry_interrupts, last_bits, accessed, itob_in, itob_bits, ctor,
           stack, preempted >>

\* a call: the command and its arguments (0 for an argument it does not have)
Call(cmd, controller_id, device_id, dim_level) ==
  << cmd, controller_id, device_id, dim_level >>
Cmd(c) == c[1]
ControllerIdOf(c) == c[2]
DeviceIdOf(c) == c[3]
DimLevelOf(c) == c[4]

NoCall == Call("none", 0, 0, 0)

\* the frame bits offset..offset+length-1 with the values handed to SetBit
BitsAt(offset, bits, length) ==
  [k \in offset..(offset + length - 1) |-> bits[k - offset]]

NoBits == [k \in {} |-> 0]

\* a constructor call: which constructor and its arguments (0 for none)
Ctor(name, tx_pin, rx_pin, led_pin) == << name, tx_pin, rx_pin, led_pin >>
CtorName(c) == c[1]
CtorTx(c) == c[2]
CtorRx(c) == c[3]
CtorLed(c) == c[4]

\* the entries of low_pulse_array that SetBit uses for the frame bits in s
EntriesOf(s) == {2 * k : k \in s} \cup {(2 * k) + 1 : k \in s}

(***************************************************************************)
(* Construction: NexaCtrl(tx_pin, rx_pin) (NexaCtrl.cpp:42-52).            *)
(* led_pin_ is not assigned by this constructor: it holds any value.       *)
(***************************************************************************)
NexaCtrl2(tx_pin, rx_pin) ==
  /\ tx_pin_ = tx_pin
  /\ rx_pin_ = rx_pin
  /\ led_pin_ \in Pins
  /\ low_pulse_array = [i \in 0..(BufferSize - 1) |-> 0]
  /\ ctor = Ctor("NexaCtrl2", tx_pin, rx_pin, 0)

\* the object after construction, no call made yet
Constructed ==
  /\ \E tx_pin \in CtorTxPins, rx_pin \in CtorRxPins : NexaCtrl2(tx_pin, rx_pin)
  /\ interrupts \in BOOLEAN
  /\ pin = [p \in Pins |-> 0]
  /\ call = NoCall
  /\ prog = << >>
  /\ pc = "idle"
  /\ step = 0
  /\ pulse_length = 0
  /\ transmit_count = 0
  /\ trace = << >>
  /\ entry_interrupts = interrupts
  /\ last_bits = NoBits
  /\ accessed = {}
  /\ stack = << >>
  /\ preempted = FALSE

Init ==
  /\ Constructed
  /\ itob_in = << 0, 0 >>
  /\ itob_bits = NoBits

members == << tx_pin_, rx_pin_, led_pin_ >>
pure == << itob_in, itob_bits >>
locals == << pulse_length, transmit_count >>
outer == << ctor, stack, preempted >>

(***************************************************************************)
(* A caller invokes a command (NexaCtrl.cpp:54-118).                       *)
(***************************************************************************)
\* control reaches the first statement of the command
Begin(c, statements) ==
  /\ call' = c
  /\ prog' = statements
  /\ pc' = "body"
  /\ step' = 1
  /\ trace' = << >>
  /\ entry_interrupts' = interrupts
  /\ last_bits' = NoBits
  /\ accessed' = {}

Enter(c, statements) ==
  /\ pc = "idle"
  /\ Begin(c, statements)
  /\ UNCHANGED << pure, outer, members, low_pulse_array, interrupts, pin, locals >>

CallDeviceOn ==
  \E controller_id \in ControllerIds, device_id \in DeviceIds :
    Enter(Call("DeviceOn", controller_id, device_id, 0),
          DeviceOn(controller_id, device_id))

CallDeviceOff ==
  \E controller_id \in ControllerIds, device_id \in DeviceIds :
    Enter(Call("DeviceOff", controller_id, device_id, 0),
          DeviceOff(controller_id, device_id))

CallDeviceDim ==
  \E controller_id \in ControllerIds, device_id \in DeviceIds, dim_level \in DimLevels :
    Enter(Call("DeviceDim", controller_id, device_id, dim_level),
          DeviceDim(controller_id, device_id, dim_level))

CallGroupOn ==
  \E controller_id \in ControllerIds :
    Enter(Call("GroupOn", controller_id, 0, 0),
          GroupOn(controller_id))

CallGroupOff ==
  \E controller_id \in ControllerIds :
    Enter(Call("GroupOff", controller_id, 0, 0),
          GroupOff(controller_id))

(***************************************************************************)
(* The statements of a command before Transmit.                            *)
(***************************************************************************)
AtStmt(op) == pc = "body" /\ Op(prog[step]) = op

\* the statement's effect on the buffer, with the frame bits it handed to SetBit
Wrote(arr, bits) ==
  /\ low_pulse_array' = arr
  /\ last_bits' = bits
  /\ accessed' = accessed \cup EntriesOf(DOMAIN bits)
  /\ step' = step + 1
  /\ UNCHANGED << pure, outer, members, interrupts, pin, call, prog, pc, locals, trace,
                  entry_interrupts >>

StepSetControllerBits ==
  /\ AtStmt("SetControllerBits")
  /\ Wrote(SetControllerBits(low_pulse_array, ArgA(prog[step])),
           BitsAt(kControllerIdOffset, itob(ArgA(prog[step]), kControllerIdLength),
                  kControllerIdLength))

StepSetDeviceBits ==
  /\ AtStmt("SetDeviceBits")
  /\ Wrote(SetDeviceBits(low_pulse_array, ArgA(prog[step])),
           BitsAt(kDeviceIdOffset, itob(ArgA(prog[step]), kDeviceIdLength),
                  kDeviceIdLength))

StepSetBit ==
  /\ AtStmt("SetBit")
  /\ Wrote(SetBit(low_pulse_array, ArgA(prog[step]), ArgB(prog[step])),
           [k \in {ArgA(prog[step])} |-> ArgB(prog[step])])

StepSetDimBits ==
  /\ AtStmt("SetDimBits")
  /\ Wrote(SetDimBits(low_pulse_array, ArgA(prog[step])),
           BitsAt(kDimOffset, itob(ArgA(prog[step]), kDimLength), kDimLength))

\* the two direct stores of DeviceDim: no SetBit call
StepDimMarker ==
  /\ AtStmt("DimMarker")
  /\ low_pulse_array' = DimMarker(low_pulse_array)
  /\ last_bits' = NoBits
  /\ accessed' = accessed \cup EntriesOf({kOnFlagOffset})
  /\ step' = step + 1
  /\ UNCHANGED << pure, outer, members, interrupts, pin, call, prog, pc, locals, trace,
                  entry_interrupts >>

(***************************************************************************)
(* Transmit (NexaCtrl.cpp:157-197) and the latches (NexaCtrl.cpp:199-217). *)
(***************************************************************************)
\* delayMicroseconds(us) while the transmit pin is at level
Delay(tr, level, us) == Append(tr, << level, us >>)
LevelOf(event) == event[1]
MicrosOf(event) == event[2]

\* pinSetFast(tx_pin_); delayMicroseconds(kPulseLow0);
\* pinResetFast(tx_pin_); delayMicroseconds(9900);
TransmitLatch1(tr) == Delay(Delay(tr, 1, kPulseLow0), 0, kLatch1Low)

\* TransmitLatch2 with the low period of TransmitLatch1
TransmitLatch2_long(tr) == Delay(Delay(tr, 1, kPulseLow0), 0, kLatch1Low)

\* pinSetFast(tx_pin_); delayMicroseconds(kPulseLow0);
\* pinResetFast(tx_pin_); delayMicroseconds(2675);
TransmitLatch2(tr) == Delay(Delay(tr, 1, kPulseLow0), 0, kLatch2Low)

RECURSIVE PulseLoop(_, _, _)
\* the delays of
\* for (; pulse_count < pulse_length; pulse_count++) {
\*   pinSetFast(tx_pin_); delayMicroseconds(kPulseHigh);
\*   pinResetFast(tx_pin_); delayMicroseconds(low_pulse_array[pulse_count]); }
PulseLoop(arr, length, pulse_count) ==
  IF pulse_count < length
  THEN Delay(Delay(<< >>, 1, kPulseHigh), 0, arr[pulse_count])
         \o PulseLoop(arr, length, pulse_count + 1)
  ELSE << >>

\* TransmitEnter without noInterrupts()
TransmitEnter_unmasked ==
  /\ AtStmt("Transmit")
  /\ pulse_length' = ArgA(prog[step])
  /\ transmit_count' = 0
  /\ pc' = "led_on"
  /\ UNCHANGED << pure, outer, members, low_pulse_array, interrupts, pin, call, prog,
                  step, trace, entry_interrupts, last_bits, accessed >>

\* noInterrupts(); transmit_count = 0;
TransmitEnter ==
  /\ AtStmt("Transmit")
  /\ pulse_length' = ArgA(prog[step])
  /\ interrupts' = FALSE
  /\ transmit_count' = 0
  /\ pc' = "led_on"
  /\ UNCHANGED << pure, outer, members, low_pulse_array, pin, call, prog, step, trace,
                  entry_interrupts, last_bits, accessed >>

\* if (led_pin_ > 0) pinSetFast(led_pin_);
LedOn ==
  /\ pc = "led_on"
  /\ pin' = IF led_pin_ > 0 THEN [pin EXCEPT ![led_pin_] = 1] ELSE pin
  /\ pc' = "latch1"
  /\ UNCHANGED << pure, outer, members, low_pulse_array, interrupts, call, prog, step,
                  locals, trace, entry_interrupts, last_bits, accessed >>

Latch1 ==
  /\ pc = "latch1"
  /\ trace' = TransmitLatch1(trace)
  /\ pin' = [pin EXCEPT ![tx_pin_] = 0]
  /\ pc' = "latch2"
  /\ UNCHANGED << pure, outer, members, low_pulse_array, interrupts, call, prog, step,
                  locals, entry_interrupts, last_bits, accessed >>

\* both calls of TransmitLatch2: before the data and after it
Latch2 ==
  /\ pc \in {"latch2", "latch2_end"}
  /\ trace' = TransmitLatch2(trace)
  /\ pin' = [pin EXCEPT ![tx_pin_] = 0]
  /\ pc' = IF pc = "latch2" THEN "data" ELSE "led_off"
  /\ UNCHANGED << pure, outer, members, low_pulse_array, interrupts, call, prog, step,
                  locals, entry_interrupts, last_bits, accessed >>

DataPulses ==
  /\ pc = "data"
  /\ trace' = trace \o PulseLoop(low_pulse_array, pulse_length, 0)
  /\ accessed' = accessed \cup (0..(pulse_length - 1))
  /\ pin' = IF pulse_length > 0 THEN [pin EXCEPT ![tx_pin_] = 0] ELSE pin
  /\ pc' = "latch2_end"
  /\ UNCHANGED << pure, outer, members, low_pulse_array, interrupts, call, prog, step,
                  locals, entry_interrupts, last_bits >>

\* LedOff leaving the status pin as it is
LedOff_kept ==
  /\ pc = "led_off"
  /\ pc' = "gap"
  /\ UNCHANGED << pure, outer, members, low_pulse_array, interrupts, pin, call, prog, step,
                  locals, trace, entry_interrupts, last_bits, accessed >>

\* if (led_pin_ > 0) digitalWrite(led_pin_, LOW);
LedOff ==
  /\ pc = "led_off"
  /\ pin' = IF led_pin_ > 0 THEN [pin EXCEPT ![led_pin_] = 0] ELSE pin
  /\ pc' = "gap"
  /\ UNCHANGED << pure, outer, members, low_pulse_array, interrupts, call, prog, step,
                  locals, trace, entry_interrupts, last_bits, accessed >>

\* Gap leaving the loop after the first repeat
Gap_once ==
  /\ pc = "gap"
  /\ trace' = Delay(trace, pin[tx_pin_], kGapDelay)
  /\ transmit_count' = transmit_count + 1
  /\ pc' = "exit"
  /\ UNCHANGED << pure, outer, members, low_pulse_array, interrupts, pin, call, prog, step,
                  pulse_length, entry_interrupts, last_bits, accessed >>

\* delayMicroseconds(10000); transmit_count++; transmit_count < 2 ?
Gap ==
  /\ pc = "gap"
  /\ trace' = Delay(trace, pin[tx_pin_], kGapDelay)
  /\ transmit_count' = transmit_count + 1
  /\ pc' = IF transmit_count + 1 < kRepeats THEN "led_on" ELSE "exit"
  /\ UNCHANGED << pure, outer, members, low_pulse_array, interrupts, pin, call, prog, step,
                  pulse_length, entry_interrupts, last_bits, accessed >>

\* TransmitExit without interrupts()
TransmitExit_masked ==
  /\ pc = "exit"
  /\ pc' = "idle"
  /\ UNCHANGED << pure, outer, members, low_pulse_array, interrupts, pin, call, prog,
                  step, locals, trace, entry_interrupts, last_bits, accessed >>

\* interrupts(); Transmit returns, and the command with it
TransmitExit ==
  /\ pc = "exit"
  /\ interrupts' = TRUE
  /\ pc' = "idle"
  /\ UNCHANGED << pure, outer, members, low_pulse_array, pin, call, prog, step, locals,
                  trace, entry_interrupts, last_bits, accessed >>

Next ==
  \/ CallDeviceOn
  \/ CallDeviceOff
  \/ CallDeviceDim
  \/ CallGroupOn
  \/ CallGroupOff
  \/ StepSetControllerBits
  \/ StepSetDeviceBits
  \/ StepSetBit
  \/ StepSetDimBits
  \/ StepDimMarker
  \/ TransmitEnter
  \/ LedOn
  \/ Latch1
  \/ Latch2
  \/ DataPulses
  \/ LedOff
  \/ Gap
  \/ TransmitExit

Spec == Init /\ [][Next]_vars

\* the processor executes the next statement of the call in progress
Running ==
  \/ StepSetControllerBits
  \/ StepSetDeviceBits
  \/ StepSetBit
  \/ StepSetDimBits
  \/ StepDimMarker
  \/ TransmitEnter
  \/ LedOn
  \/ Latch1
  \/ Latch2
  \/ DataPulses
  \/ LedOff
  \/ Gap
  \/ TransmitExit

TypeOK ==
  /\ tx_pin_ \in Pins /\ rx_pin_ \in Pins /\ led_pin_ \in Pins
  /\ interrupts \in BOOLEAN
  /\ pc \in {"idle", "body", "led_on", "latch1", "latch2", "data",
             "latch2_end", "led_off", "gap", "exit"}

(***************************************************************************)
(* SpecItob: itob applied to one pair of arguments.                        *)
(***************************************************************************)
\* the values below 2^length whose set bits, or whose clear bits, fit in a
\* window of MaxWindow bits; every value when length <= MaxWindow
ItobValues(length) ==
  IF length <= MaxWindow
  THEN 0..(power2(length) - 1)
  ELSE LET windowed == {x * power2(s) : x \in 0..(power2(MaxWindow) - 1),
                                         s \in 0..(length - MaxWindow)}
       IN  windowed \cup {(power2(length) - 1) - w : w \in windowed}

\* the values 1..MaxExcess beyond the field, and the field's modulus itself
ItobExcess(length) == power2(length)..(power2(length) + MaxExcess)

ItobLengths == {kControllerIdLength, kDeviceIdLength, kDimLength}

InitItob ==
  /\ Constructed
  /\ \E length \in ItobLengths :
       \E integer \in ItobValues(length) \cup ItobExcess(length) :
         itob_in = << integer, length >>
  /\ itob_bits = NoBits

ApplyItob ==
  /\ itob_bits = NoBits
  /\ itob_bits' = itob(itob_in[1], itob_in[2])
  /\ UNCHANGED << outer, members, low_pulse_array, interrupts, pin, call, prog, pc,
                  step, locals, trace, entry_interrupts, last_bits, accessed,
                  itob_in >>

NextItob == ApplyItob

SpecItob == InitItob /\ [][NextItob]_vars

(***************************************************************************)
(* Vocabulary of the properties.                                           *)
(***************************************************************************)
\* a call has returned and no other has started
Returned == pc = "idle" /\ Cmd(call) # "none"

\* a call is between its entry and its return
InCall == pc # "idle"

\* the phases of Transmit after noInterrupts() and before interrupts()
TransmitPhases ==
  {"led_on", "latch1", "latch2", "data", "latch2_end", "led_off", "gap", "exit"}

\* the argument the call in progress (or last returned) gives to Transmit
CallLength == ArgA(prog[Len(prog)])

High(us) == << 1, us >>
Low(us) == << 0, us >>

\* the bit a receiver reads from a pair of low-pulse durations, -1 if none
Decode(first, second) ==
  IF first = 275 /\ second = 1225 THEN 0
  ELSE IF first = 1225 /\ second = 275 THEN 1
  ELSE -1

\* frame bit k as stored in the buffer
FrameBit(k) == Decode(low_pulse_array[2 * k], low_pulse_array[(2 * k) + 1])

\* the standard big-endian binary representation of v in length bits
Binary(v, length) ==
  [i \in 0..(length - 1) |-> (v \div (2 ^ (length - 1 - i))) % 2]

IsPrefix(s, t) ==
  /\ Len(s) <= Len(t)
  /\ \A i \in 1..Len(s) : s[i] = t[i]

\* one repeat over the first n entries of arr, as the protocol lays it out
RepeatEvents(arr, n) ==
  << High(275), Low(9900), High(275), Low(2675) >>
    \o [j \in 1..(2 * n) |->
          IF j % 2 = 1 THEN High(275) ELSE Low(arr[(j \div 2) - 1])]
    \o << High(275), Low(2675), Low(10000) >>

\* number of delays in one repeat of n data pulses
RepeatLen(n) == (2 * n) + 7

\* the low-pulse duration sent for entry k in repeat r (0 or 1) of a returned call
Sent(r, k) == MicrosOf(trace[(r * RepeatLen(CallLength)) + 4 + (2 * k) + 2])

(***************************************************************************)
(* C1.  Every command call drives the transmit line through exactly: two   *)
(* repeats, each Latch 1 (high 275, low 9900), Latch 2 (high 275, low      *)
(* 2675), one data pulse (high 275, low = entry) per buffer entry in       *)
(* ascending index order, a trailing Latch 2, and a gap of 10000; the call *)
(* returns after the second gap.  At every moment of a call the delays     *)
(* made so far are a prefix of that sequence, and at return they are all   *)
(* of it.                                                                  *)
(***************************************************************************)
C1_Waveform ==
  Cmd(call) # "none" =>
    LET whole == RepeatEvents(low_pulse_array, CallLength)
                   \o RepeatEvents(low_pulse_array, CallLength)
    IN  /\ IsPrefix(trace, whole)
        /\ Returned => trace = whole
        /\ trace = whole => pc \in {"exit", "idle"}

C1_Witness ==
  /\ Returned
  /\ Cmd(call) = "DeviceDim"
  /\ Len(trace) = 2 * RepeatLen(72)
  /\ led_pin_ = tx_pin_

(***************************************************************************)
(* C2.  Within a command call interrupt delivery is disabled before the    *)
(* first write to the transmit line, stays disabled through both repeats   *)
(* and both gaps, and is enabled again when the call returns.              *)
(***************************************************************************)
C2_Masked ==
  /\ [](pc \in TransmitPhases => ~interrupts)
  /\ [](Returned => interrupts)
  /\ [][(pin'[tx_pin_] # pin[tx_pin_] \/ Len(trace') > Len(trace))
          => (~interrupts /\ ~interrupts')]_vars

C2_Witness ==
  /\ pc = "led_on"
  /\ transmit_count = 1
  /\ entry_interrupts
  /\ ~interrupts

(***************************************************************************)
(* C3 as stated.  The interrupt-delivery state when a call returns equals  *)
(* the state at call entry, for both entry states.                         *)
(***************************************************************************)
C3_Original == Returned => interrupts = entry_interrupts

(***************************************************************************)
(* C3 amended.  When a call returns interrupt delivery is enabled whatever *)
(* the state at call entry was; the state at return equals the state at    *)
(* entry exactly when delivery was enabled at entry.                       *)
(***************************************************************************)
C3_Amended ==
  Returned =>
    /\ interrupts
    /\ (interrupts = entry_interrupts) <=> entry_interrupts

C3_Witness == Returned /\ ~entry_interrupts /\ interrupts

(***************************************************************************)
(* C4.  Wire encoding law: for every frame bit written through SetBit, a   *)
(* logical 0 stores (275, 1225) at entries (2*index, 2*index+1) and a      *)
(* logical 1 stores (1225, 275); decoding the stored pair recovers the     *)
(* bit.                                                                    *)
(***************************************************************************)
C4_WireLaw ==
  \A k \in DOMAIN last_bits :
    /\ last_bits[k] = 0 =>
         low_pulse_array[2 * k] = 275 /\ low_pulse_array[(2 * k) + 1] = 1225
    /\ last_bits[k] = 1 =>
         low_pulse_array[2 * k] = 1225 /\ low_pulse_array[(2 * k) + 1] = 275
    /\ FrameBit(k) = last_bits[k]

C4_Witness ==
  /\ pc = "body"
  /\ \E j, k \in DOMAIN last_bits : last_bits[j] = 0 /\ last_bits[k] = 1

\* the call has built its frame and is about to start Transmit
AtTransmit == pc = "body" /\ Op(prog[step]) = "Transmit"

\* the low-pulse duration of entry e in the wire encoding of a frame
WireEntry(frame, e) ==
  IF frame[e \div 2] = 0
  THEN (IF e % 2 = 0 THEN 275 ELSE 1225)
  ELSE (IF e % 2 = 0 THEN 1225 ELSE 275)

\* the 32-bit frame: controller MSB-first, group flag, on flag, device MSB-first
Frame32(controller_id, group_flag, on_flag, device_id) ==
  [k \in 0..31 |->
     IF k < 26 THEN Binary(controller_id, 26)[k]
     ELSE IF k = 26 THEN group_flag
     ELSE IF k = 27 THEN on_flag
     ELSE Binary(device_id, 4)[k - 28]]

NonDim == {"DeviceOn", "DeviceOff", "GroupOn", "GroupOff"}

(***************************************************************************)
(* C5.  At the moment Transmit starts, for all arguments: DeviceOn has     *)
(* on_flag (frame bit 27) 1 and group_flag (bit 26) 0; DeviceOff has       *)
(* on_flag 0 and group_flag 0; GroupOn has group_flag 1, on_flag 1 and     *)
(* device field (bits 28-31) 0000; GroupOff has group_flag 1, on_flag 0    *)
(* and device field 0000.                                                  *)
(***************************************************************************)
C5_Flags ==
  AtTransmit =>
    /\ Cmd(call) = "DeviceOn" => FrameBit(27) = 1 /\ FrameBit(26) = 0
    /\ Cmd(call) = "DeviceOff" => FrameBit(27) = 0 /\ FrameBit(26) = 0
    /\ Cmd(call) = "GroupOn" =>
         /\ FrameBit(26) = 1 /\ FrameBit(27) = 1
         /\ \A k \in 28..31 : FrameBit(k) = 0
    /\ Cmd(call) = "GroupOff" =>
         /\ FrameBit(26) = 1 /\ FrameBit(27) = 0
         /\ \A k \in 28..31 : FrameBit(k) = 0

C5_Witness ==
  /\ AtTransmit
  /\ Cmd(call) = "GroupOff"
  /\ ControllerIdOf(call) > 67108864

(***************************************************************************)
(* C6.  For every non-dim command with controller_id < 2^26 and            *)
(* device_id < 16, the 64 entries sent in each repeat are the wire         *)
(* encoding of the frame: bits 0-25 controller_id MSB-first, bit 26        *)
(* group_flag, bit 27 on_flag, bits 28-31 device_id MSB-first.             *)
(***************************************************************************)
C6_Frame ==
  (/\ Returned
   /\ Cmd(call) \in NonDim
   /\ ControllerIdOf(call) < 67108864
   /\ DeviceIdOf(call) < 16) =>
    LET frame == Frame32(ControllerIdOf(call),
                         IF Cmd(call) \in {"GroupOn", "GroupOff"} THEN 1 ELSE 0,
                         IF Cmd(call) \in {"DeviceOn", "GroupOn"} THEN 1 ELSE 0,
                         DeviceIdOf(call))
    IN  /\ Len(trace) = 2 * RepeatLen(64)
        /\ \A r \in 0..1 : \A e \in 0..63 : Sent(r, e) = WireEntry(frame, e)

C6_Witness ==
  /\ Returned
  /\ Cmd(call) = "DeviceOn"
  /\ ControllerIdOf(call) = 1
  /\ DeviceIdOf(call) = 3
  /\ Sent(1, 50) = 1225 /\ Sent(1, 51) = 275
  /\ Sent(1, 54) = 1225 /\ Sent(1, 55) = 275
  /\ << Sent(1, 60), Sent(1, 61), Sent(1, 62), Sent(1, 63) >> = << 1225, 275, 1225, 275 >>

(***************************************************************************)
(* C7.  Sequence-length law: in each repeat DeviceOn, DeviceOff, GroupOn   *)
(* and GroupOff emit exactly 64 data pulses, from buffer entries 0..63,    *)
(* and DeviceDim emits exactly 72, from entries 0..71, for all arguments.  *)
(* Each repeat has three more high pulses than data pulses: the latches.   *)
(***************************************************************************)
C7_Length ==
  Returned =>
    LET n == IF Cmd(call) = "DeviceDim" THEN 72 ELSE 64
        half == Len(trace) \div 2
        highs(r) == {i \in ((r * half) + 1)..((r + 1) * half) : LevelOf(trace[i]) = 1}
    IN  /\ Len(trace) = 2 * RepeatLen(n)
        /\ \A r \in 0..1 : Cardinality(highs(r)) = n + 3
        /\ pulse_length = n
        /\ accessed = 0..(n - 1)

C7_Witness ==
  /\ Returned
  /\ Cmd(call) = "DeviceDim"
  /\ Len(trace) = 302
  /\ DeviceIdOf(call) > 16

(***************************************************************************)
(* C8.  For every v in [0, 2^L - 1], itob(bits, v, L) produces the         *)
(* standard big-endian (MSB-first) L-bit binary representation of v, for   *)
(* L = 26 and L = 4.                                                       *)
(***************************************************************************)
C8_Itob ==
  (itob_bits # NoBits /\ itob_in[1] < 2 ^ itob_in[2]) =>
    /\ DOMAIN itob_bits = 0..(itob_in[2] - 1)
    /\ itob_bits = Binary(itob_in[1], itob_in[2])

C8_Witness ==
  /\ itob_bits # NoBits
  /\ itob_in[2] = 26
  /\ itob_in[1] = 67108863 - 12
  /\ itob_bits[0] = 1 /\ itob_bits[22] = 0 /\ itob_bits[23] = 0
  /\ itob_bits[24] = 1 /\ itob_bits[25] = 1

(***************************************************************************)
(* C9 as stated.  Out-of-range identifiers are truncated to their field    *)
(* width: for controller_id >= 2^26 the encoded controller field is the    *)
(* MSB-first binary of controller_id mod 2^26, and for device_id >= 16 the *)
(* encoded device field is the MSB-first binary of device_id mod 16.       *)
(***************************************************************************)
C9_Truncated ==
  (AtTransmit /\ Cmd(call) \in {"DeviceOn", "DeviceOff", "DeviceDim"}) =>
    /\ ControllerIdOf(call) >= 67108864 =>
         \A k \in 0..25 :
           FrameBit(k) = Binary(ControllerIdOf(call) % 67108864, 26)[k]
    /\ DeviceIdOf(call) >= 16 =>
         \A k \in 28..31 :
           FrameBit(k) = Binary(DeviceIdOf(call) % 16, 4)[k - 28]

(***************************************************************************)
(* C10.  For every DeviceDim call the frame transmitted has group_flag 0,  *)
(* the on/off slot (entries 54 and 55) holding (275, 275) instead of       *)
(* either bit encoding, the controller field (bits 0-25) and the device    *)
(* field (bits 28-31) encoded as for non-dim commands, and a 4-bit dim     *)
(* field at frame bits 32-35 (entries 64..71); all 72 entries are sent in  *)
(* each repeat.                                                            *)
(***************************************************************************)
C10_DimFrame ==
  (Cmd(call) = "DeviceDim" /\ (AtTransmit \/ Returned)) =>
    LET blank == [i \in 0..71 |-> 0]
        nondim == SetDeviceBits(SetControllerBits(blank, ControllerIdOf(call)),
                                DeviceIdOf(call))
        fields == (0..51) \cup (56..63)
    IN  /\ FrameBit(26) = 0
        /\ low_pulse_array[54] = 275 /\ low_pulse_array[55] = 275
        /\ FrameBit(27) = -1
        /\ \A e \in fields : low_pulse_array[e] = nondim[e]
        /\ (ControllerIdOf(call) < 67108864 /\ DeviceIdOf(call) < 16) =>
             \A e \in fields :
               low_pulse_array[e]
                 = WireEntry(Frame32(ControllerIdOf(call), 0, 0, DeviceIdOf(call)), e)
        /\ \A k \in 32..35 : FrameBit(k) \in {0, 1}
        /\ (64..71) \subseteq accessed
        /\ Returned =>
             /\ Len(trace) = 2 * RepeatLen(72)
             /\ \A r \in 0..1 : \A e \in 0..71 : Sent(r, e) = low_pulse_array[e]

C10_Witness ==
  /\ Returned
  /\ Cmd(call) = "DeviceDim"
  /\ ControllerIdOf(call) = 44739242
  /\ DeviceIdOf(call) = 10
  /\ DimLevelOf(call) = 100
  /\ Sent(0, 54) = 275 /\ Sent(0, 55) = 275

\* the value of the dim field stored in frame bits 32-35, MSB first
DimField ==
  (8 * FrameBit(32)) + (4 * FrameBit(33)) + (2 * FrameBit(34)) + FrameBit(35)

\* the dim field DeviceDim stores for an input level
DimFieldOf(dim_level) ==
  LET b == itob(DimScale(dim_level), kDimLength)
  IN  (8 * b[0]) + (4 * b[1]) + (2 * b[2]) + b[3]

(***************************************************************************)
(* C11 as stated.  DeviceDim maps the input level from [0,100] onto        *)
(* [0,15] before encoding: level 0 encodes dim field 0, level 100 encodes  *)
(* dim field 15, and a larger level never encodes a smaller dim field      *)
(* than a smaller level.                                                   *)
(***************************************************************************)
C11_Mapped ==
  (AtTransmit /\ Cmd(call) = "DeviceDim" /\ DimLevelOf(call) <= 100) =>
    /\ DimField \in 0..15
    /\ DimLevelOf(call) = 0 => DimField = 0
    /\ DimLevelOf(call) = 100 => DimField = 15
    /\ \A smaller \in DimLevels :
         smaller <= DimLevelOf(call) => DimFieldOf(smaller) <= DimField

StatementsOf(c) ==
  CASE Cmd(c) = "DeviceOn" -> DeviceOn(ControllerIdOf(c), DeviceIdOf(c))
    [] Cmd(c) = "DeviceOff" -> DeviceOff(ControllerIdOf(c), DeviceIdOf(c))
    [] Cmd(c) = "DeviceDim" ->
         DeviceDim(ControllerIdOf(c), DeviceIdOf(c), DimLevelOf(c))
    [] Cmd(c) = "GroupOn" -> GroupOn(ControllerIdOf(c))
    [] Cmd(c) = "GroupOff" -> GroupOff(ControllerIdOf(c))
    [] OTHER -> << >>

\* the buffer after one statement
Apply(stmt, arr) ==
  CASE Op(stmt) = "SetControllerBits" -> SetControllerBits(arr, ArgA(stmt))
    [] Op(stmt) = "SetDeviceBits" -> SetDeviceBits(arr, ArgA(stmt))
    [] Op(stmt) = "SetBit" -> SetBit(arr, ArgA(stmt), ArgB(stmt))
    [] Op(stmt) = "SetDimBits" -> SetDimBits(arr, ArgA(stmt))
    [] Op(stmt) = "DimMarker" -> DimMarker(arr)
    [] OTHER -> arr

RECURSIVE RunFrom(_, _, _)
\* the buffer after statements i.. of a list, started on arr
RunFrom(statements, arr, i) ==
  IF i > Len(statements)
  THEN arr
  ELSE RunFrom(statements, Apply(statements[i], arr), i + 1)

\* the buffer a call builds as the first command on a new object
AsFirstCommand(c) ==
  RunFrom(StatementsOf(c), [i \in 0..(BufferSize - 1) |-> 0], 1)

(***************************************************************************)
(* SpecLive: the calls of a caller that makes one call of each command,    *)
(* in any order and any number of times, on a processor that does not      *)
(* stop inside a call: every wait in the code is a busy-wait of finite     *)
(* length.                                                                 *)
(***************************************************************************)
LiveCalls ==
  { Call("DeviceOn", 1, 3, 0),
    Call("DeviceOff", power2(kControllerIdLength) + 1, power2(kDeviceIdLength) + 1, 0),
    Call("DeviceDim", 44739242, 10, 100),
    Call("GroupOn", 0, 0, 0),
    Call("GroupOff", 67108863, 0, 0) }

CallLive == \E c \in LiveCalls : Enter(c, StatementsOf(c))

NextLive == CallLive \/ Running

SpecLive == Init /\ [][NextLive]_vars /\ WF_vars(Running)

(***************************************************************************)
(* C13.  The pulse sequence a command transmits depends only on the        *)
(* command and its arguments, not on history: after any sequence of        *)
(* earlier commands on the same object a command transmits the entries it  *)
(* would transmit as the first command.                                    *)
(***************************************************************************)
C13_NoHistory ==
  Returned =>
    /\ Len(trace) = 2 * RepeatLen(CallLength)
    /\ \A r \in 0..1 : \A e \in 0..(CallLength - 1) :
         Sent(r, e) = AsFirstCommand(call)[e]

\* a group command on an object that transmitted a dim command earlier
C13_Witness ==
  /\ Returned
  /\ Cmd(call) = "GroupOn"
  /\ low_pulse_array[64] # 0
  /\ Sent(1, 56) = 275 /\ Sent(1, 57) = 1225

\* the gaps among the delays of the current call
Gaps == {i \in 1..Len(trace) : trace[i] = Low(10000)}

(***************************************************************************)
(* C14.  Every command call terminates, and it returns only after both     *)
(* repeats and the final 10000 gap: no call returns after zero or one      *)
(* repeat, and no call runs forever.                                       *)
(***************************************************************************)
C14_Terminates ==
  /\ [](Returned =>
          /\ Cardinality(Gaps) = 2
          /\ Len(trace) \in Gaps
          /\ transmit_count = 2)
  /\ [][(InCall /\ pc' = "idle") => (pc = "exit" /\ Cardinality(Gaps) = 2)]_vars
  /\ (InCall ~> Returned)

C14_Witness ==
  /\ Returned
  /\ Cmd(call) = "GroupOff"
  /\ transmit_count = 2
  /\ Cardinality(Gaps) = 2

\* the step leaves every entry outside s as it was and uses no index outside s
WritesOnly(s) ==
  /\ DOMAIN low_pulse_array' = DOMAIN low_pulse_array
  /\ \A e \in (DOMAIN low_pulse_array) \ s : low_pulse_array'[e] = low_pulse_array[e]
  /\ (accessed' \ accessed) \subseteq s

(***************************************************************************)
(* C15.  Encoding a field never overflows into adjacent fields, for all    *)
(* argument values: SetControllerBits writes only entries 0..51,           *)
(* SetDeviceBits only 56..63, the group write only 52..53, the on/off      *)
(* write only 54..55, the dim loop only 64..71; every other entry is left  *)
(* unchanged by each of these steps, and Transmit changes no entry.        *)
(***************************************************************************)
C15_NoOverflow ==
  [][/\ AtStmt("SetControllerBits") => WritesOnly(0..51)
     /\ AtStmt("SetDeviceBits") => WritesOnly(56..63)
     /\ AtStmt("SetBit") => ArgA(prog[step]) \in {26, 27}
     /\ (AtStmt("SetBit") /\ ArgA(prog[step]) = 26) => WritesOnly(52..53)
     /\ (AtStmt("SetBit") /\ ArgA(prog[step]) = 27) => WritesOnly(54..55)
     /\ AtStmt("DimMarker") => WritesOnly(54..55)
     /\ AtStmt("SetDimBits") => WritesOnly(64..71)
     /\ (pc # "body" \/ AtStmt("Transmit")) => low_pulse_array' = low_pulse_array
    ]_vars

\* SetDeviceBits has just run with an out-of-range device on a buffer that
\* holds the dim field of an earlier command
C15_Witness ==
  /\ pc = "body"
  /\ step > 1
  /\ Op(prog[step - 1]) = "SetDeviceBits"
  /\ Op(prog[step]) = "SetDimBits"
  /\ DeviceIdOf(call) > 16
  /\ low_pulse_array[64] = 275 /\ low_pulse_array[65] = 1225

StatusLine == led_pin_ > 0 /\ led_pin_ # tx_pin_

(***************************************************************************)
(* C18.  When a status line is configured, in each of the two repeats it   *)
(* is high from before Latch 1 until after the trailing Latch 2 and low    *)
(* from then on: every delay of the latches and the data is made with the  *)
(* status line high, both gaps are made with it low, and it is low when    *)
(* the call returns.                                                       *)
(***************************************************************************)
C18_StatusLine ==
  /\ [](StatusLine =>
          /\ pc \in {"latch1", "latch2", "data", "latch2_end", "led_off"}
               => pin[led_pin_] = 1
          /\ pc \in {"gap", "exit"} => pin[led_pin_] = 0
          /\ (pc = "led_on" /\ transmit_count > 0) => pin[led_pin_] = 0
          /\ Returned => pin[led_pin_] = 0)
  /\ [][(StatusLine /\ Len(trace') > Len(trace)) =>
          /\ pin'[led_pin_] = pin[led_pin_]
          /\ pin[led_pin_] = (IF pc = "gap" THEN 0 ELSE 1)]_vars

\* the second repeat's data has been sent with the status line high
C18_Witness ==
  /\ StatusLine
  /\ pc = "latch2_end"
  /\ transmit_count = 1
  /\ pin[led_pin_] = 1
  /\ pin[tx_pin_] = 0

(***************************************************************************)
(* C19.  For all arguments and after any sequence of commands, every       *)
(* low-pulse duration sent in the data phase of either repeat is 275 or    *)
(* 1225, and every pair sent (entries 2k, 2k+1) has exactly one 275 and    *)
(* one 1225, except the on/off slot (k = 27) of a DeviceDim call, which is *)
(* sent as (275, 275).                                                     *)
(***************************************************************************)
C19_PulsePairs ==
  Returned =>
    \A r \in 0..1 : \A k \in 0..((CallLength \div 2) - 1) :
      LET first == Sent(r, 2 * k)
          second == Sent(r, (2 * k) + 1)
      IN  /\ first \in {275, 1225}
          /\ second \in {275, 1225}
          /\ IF Cmd(call) = "DeviceDim" /\ k = 27
             THEN first = 275 /\ second = 275
             ELSE first # second

\* the first command of an object has returned: what it did not write would
\* be sent as the zero the allocation left
C19_Witness ==
  /\ Returned
  /\ Cmd(call) = "DeviceDim"
  /\ Len(trace) = 2 * RepeatLen(72)
  /\ low_pulse_array = AsFirstCommand(call)
  /\ Sent(1, 54) = 275 /\ Sent(1, 55) = 275
  /\ Sent(1, 71) \in {275, 1225}

(***************************************************************************)
(* SpecCtor: construction from raw storage (NexaCtrl.cpp:34-52), then      *)
(* commands.  Before a constructor runs the members hold any value and     *)
(* the buffer pointer points at no buffer.                                 *)
(***************************************************************************)
\* the led_pin arguments given to NexaCtrl(tx_pin, rx_pin, led_pin)
CtorLedPins == {2}

\* a pointer that no calloc of this object has set: none of its entries is
\* the object's
NoBuffer == [i \in {} |-> 0]

InitCtor ==
  /\ tx_pin_ \in Pins
  /\ rx_pin_ \in Pins
  /\ led_pin_ \in Pins
  /\ low_pulse_array = NoBuffer
  /\ ctor = Ctor("none", 0, 0, 0)
  /\ interrupts \in BOOLEAN
  /\ pin = [p \in Pins |-> 0]
  /\ call = NoCall
  /\ prog = << >>
  /\ pc = "new"
  /\ step = 0
  /\ pulse_length = 0
  /\ transmit_count = 0
  /\ trace = << >>
  /\ entry_interrupts = interrupts
  /\ last_bits = NoBits
  /\ accessed = {}
  /\ stack = << >>
  /\ preempted = FALSE
  /\ itob_in = << 0, 0 >>
  /\ itob_bits = NoBits

\* NexaCtrl(tx_pin, rx_pin): assigns tx_pin_, rx_pin_ and the buffer, not led_pin_
NewNexaCtrl2 ==
  /\ pc = "new"
  /\ \E tx_pin \in CtorTxPins, rx_pin \in CtorRxPins :
       /\ tx_pin_' = tx_pin
       /\ rx_pin_' = rx_pin
       /\ ctor' = Ctor("NexaCtrl2", tx_pin, rx_pin, 0)
  /\ low_pulse_array' = [i \in 0..(BufferSize - 1) |-> 0]
  /\ pc' = "idle"
  /\ UNCHANGED << pure, stack, preempted, led_pin_, interrupts, pin, call, prog,
                  step, locals, trace, entry_interrupts, last_bits, accessed >>

\* NexaCtrl(tx_pin, rx_pin, led_pin): assigns led_pin_; the statement
\* NexaCtrl(tx_pin, rx_pin); constructs and discards a temporary object, so the
\* pins and the buffer of that call never reach this object
NewNexaCtrl3 ==
  /\ pc = "new"
  /\ \E tx_pin \in CtorTxPins, rx_pin \in CtorRxPins, led_pin \in CtorLedPins :
       /\ led_pin_' = led_pin
       /\ ctor' = Ctor("NexaCtrl3", tx_pin, rx_pin, led_pin)
  /\ pc' = "idle"
  /\ UNCHANGED << pure, stack, preempted, tx_pin_, rx_pin_, low_pulse_array,
                  interrupts, pin, call, prog, step, locals, trace,
                  entry_interrupts, last_bits, accessed >>

\* a command on an object that has its buffer
CallCtor ==
  /\ DOMAIN low_pulse_array # {}
  /\ CallLive

\* a command on an object without a buffer stores through the unset pointer:
\* the behaviour from there on is undefined
CallUndefined ==
  /\ pc = "idle"
  /\ DOMAIN low_pulse_array = {}
  /\ pc' = "undefined"
  /\ UNCHANGED << pure, outer, members, low_pulse_array, interrupts, pin, call,
                  prog, step, locals, trace, entry_interrupts, last_bits, accessed >>

NextCtor ==
  \/ NewNexaCtrl2
  \/ NewNexaCtrl3
  \/ CallCtor
  \/ CallUndefined
  \/ Running

SpecCtor == InitCtor /\ [][NextCtor]_vars

(***************************************************************************)
(* C17.  An object built by either constructor is fully initialised before *)
(* any command runs: after the three-pin constructor as after the two-pin  *)
(* constructor the object's own transmit pin is the given tx pin and its   *)
(* own buffer is the 72-entry buffer allocated during that construction;   *)
(* and an object built by the two-pin constructor has no status line       *)
(* configured, so that its commands never write a pin other than the       *)
(* transmit pin.                                                           *)
(***************************************************************************)
C17_Initialised ==
  CtorName(ctor) # "none" =>
    /\ tx_pin_ = CtorTx(ctor)
    /\ DOMAIN low_pulse_array = 0..71
    /\ CtorName(ctor) = "NexaCtrl2" =>
         /\ led_pin_ = 0
         /\ \A p \in Pins \ {tx_pin_} : pin[p] = 0

(***************************************************************************)
(* SpecIrq: an interrupt handler that invokes a command on the same object *)
(* whenever interrupt delivery is enabled.  The handler runs to its return *)
(* before the suspended call goes on; there is one handler, so at most one *)
(* call is suspended.                                                      *)
(***************************************************************************)
IrqCalls ==
  { Call("DeviceOn", 1, 3, 0),
    Call("DeviceDim", 44739242, 10, 100),
    Call("GroupOff", 67108863, 0, 0) }

\* what the processor keeps of the suspended call
Frame ==
  << call, prog, pc, step, pulse_length, transmit_count, trace,
     entry_interrupts, last_bits, accessed >>
FramePc(f) == f[3]
FrameTrace(f) == f[7]

\* the main program invokes a command
MainEnter ==
  /\ pc = "idle"
  /\ stack = << >>
  /\ \E c \in IrqCalls : Begin(c, StatementsOf(c))
  /\ preempted' = FALSE
  /\ UNCHANGED << pure, ctor, stack, members, low_pulse_array, interrupts, pin,
                  locals >>

\* an interrupt is delivered during a call and its handler invokes a command
IrqEnter ==
  /\ interrupts
  /\ pc # "idle"
  /\ stack = << >>
  /\ stack' = << Frame >>
  /\ \E c \in IrqCalls : Begin(c, StatementsOf(c))
  /\ preempted' = FALSE
  /\ UNCHANGED << pure, ctor, members, low_pulse_array, interrupts, pin, locals >>

\* the handler's command has returned; the handler returns to the suspended call
IrqReturn ==
  /\ pc = "idle"
  /\ stack # << >>
  /\ call' = stack[1][1]
  /\ prog' = stack[1][2]
  /\ pc' = stack[1][3]
  /\ step' = stack[1][4]
  /\ pulse_length' = stack[1][5]
  /\ transmit_count' = stack[1][6]
  /\ trace' = stack[1][7]
  /\ entry_interrupts' = stack[1][8]
  /\ last_bits' = stack[1][9]
  /\ accessed' = stack[1][10]
  /\ stack' = << >>
  /\ preempted' = TRUE
  /\ UNCHANGED << pure, ctor, members, low_pulse_array, interrupts, pin >>

NextIrq ==
  \/ MainEnter
  \/ IrqEnter
  \/ IrqReturn
  \/ Running

SpecIrq == Init /\ [][NextIrq]_vars

\* (a) a call that a handler has suspended has made no delay on the transmit
\* line yet, and it goes on only after the handler's call has made all of its own
NoInterleaving ==
  stack # << >> => FrameTrace(stack[1]) = << >> /\ FramePc(stack[1]) = "body"

\* every entry the returned call sent is the encoding of its own arguments
SentOwnFrame ==
  \A r \in 0..1 : \A e \in 0..(CallLength - 1) :
    Sent(r, e) = AsFirstCommand(call)[e]

(***************************************************************************)
(* C20, as claimed.  With a handler that may invoke a command whenever     *)
(* interrupts are enabled, (a) the transmit-line events of two calls never *)
(* interleave and (b) the entries each call transmits are exactly the      *)
(* encoding of that call's own arguments.                                  *)
(***************************************************************************)
C20_Original ==
  /\ NoInterleaving
  /\ Returned => SentOwnFrame

(***************************************************************************)
(* C20, amended.  With such a handler, (a) the transmit-line events of two *)
(* calls never interleave, and (b) each call transmits the buffer as it    *)
(* stands when its Transmit starts: that is the encoding of its own        *)
(* arguments for every call during which no handler ran a command.         *)
(***************************************************************************)
C20_Amended ==
  /\ NoInterleaving
  /\ Returned => \A r \in 0..1 : \A e \in 0..(CallLength - 1) :
                   Sent(r, e) = low_pulse_array[e]
  /\ (Returned /\ ~preempted) => SentOwnFrame

\* a call that a handler's command interrupted has returned, having sent a
\* field the handler's command wrote
C20_Witness ==
  /\ Returned
  /\ preempted
  /\ stack = << >>
  /\ \E e \in 0..(CallLength - 1) : Sent(0, e) # AsFirstCommand(call)[e]

====
